---------------------------- MODULE Spec2Model ----------------------------
(***************************************************************************)
(* md5sift: main() validates its arguments and calls                       *)
(* walk_directory_and_log(), which creates the report, walks a directory   *)
(* tree, filters the files, submits calculate_hash() tasks to a thread     *)
(* pool and writes one CSV row per successful result.                      *)
(*                                                                         *)
(* Strings are TLA+ strings; an Optional value is <<>> (None) or <<v>>.    *)
(* The run is modelled with verbose off: the logging.info lines guarded by *)
(* `if verbose` are not recorded.  src/md5sift.py (argparse) and           *)
(* src/md5sift/__main__.py (click) hold the same functions; line numbers   *)
(* in the comments are those of src/md5sift.py.                            *)
(***************************************************************************)
EXTENDS Naturals, Integers, Sequences, FiniteSets, TLC

VARIABLES
    args,                   \* the command line handed to main()
    env,                    \* the file system and its faults, fixed for a behaviour
    pc,                     \* position of the main thread
    exclude_paths,          \* Optional set, as main() passes it on
    file_names,             \* Optional set, as main() passes it on
    outExists,              \* the output file exists on disk
    madeDirs,               \* directories created by os.makedirs
    report,                 \* rows handed to csv_writer since the file was opened
    stack,                  \* os.walk: directories still to be listed
    files,                  \* the inner loop: files of the current directory still to visit
    walked,                 \* directories os.walk has yielded, in order
    visited,                \* files the inner loop has reached, in order
    futures,                \* the list of submitted tasks
    collected,              \* indices of futures that as_completed has yielded
    count,                  \* number of submitted files
    processed_files_count,  \* number of rows written
    log,                    \* records handed to logging
    run,                    \* 1 or 2: which of two consecutive runs this is
    report1                 \* the (path, hash) pairs of the first run's report

vars == <<args, env, pc, exclude_paths, file_names, outExists, madeDirs, report,
          stack, files, walked, visited, futures, collected, count,
          processed_files_count, log, run, report1>>

------------------------------------------------------------------------------
(* Bounds of the model *)

MaxLimit == 3
MaxThreads == 2

------------------------------------------------------------------------------
(* Python values *)

None == <<>>
Some(v) == <<v>>

\* a test written `is not None` instead of truthiness
TruthyIntNotNone(o) == o # None

\* bool(x) of an Optional int / Optional str / Optional set
TruthyInt(o) == o # None /\ o[1] # 0
TruthyStr(o) == o # None /\ o[1] # ""
TruthySet(o) == o # None /\ o[1] # {}

Max(S) == CHOOSE m \in S : \A x \in S : x <= m

SeqToSet(s) == {s[i] : i \in 1..Len(s)}

\* str.endswith
EndsWith(s, suffix) ==
    /\ Len(suffix) <= Len(s)
    /\ SubSeq(s, Len(s) - Len(suffix) + 1, Len(s)) = suffix

LowerChar(c) ==
    CASE c = "A" -> "a" [] c = "C" -> "c" [] c = "D" -> "d" [] c = "H" -> "h"
      [] c = "M" -> "m" [] c = "R" -> "r" [] c = "S" -> "s"
      [] OTHER -> c

\* str.lower
RECURSIVE Lower(_)
Lower(s) ==
    IF s = "" THEN ""
    ELSE LowerChar(SubSeq(s, 1, 1)) \o Lower(SubSeq(s, 2, Len(s)))

\* os.path.join(root, name)
Join(root, name) == root \o "/" \o name

RECURSIVE RStripSlash(_)
RStripSlash(s) ==
    IF s # "" /\ SubSeq(s, Len(s), Len(s)) = "/"
    THEN RStripSlash(SubSeq(s, 1, Len(s) - 1))
    ELSE s

\* os.path.dirname (posixpath)
Dirname(p) ==
    LET slashes == {i \in 1..Len(p) : SubSeq(p, i, i) = "/"}
        i == IF slashes = {} THEN 0 ELSE Max(slashes)
        head == SubSeq(p, 1, i)
    IN  IF head # "" /\ RStripSlash(head) # "" THEN RStripSlash(head) ELSE head

------------------------------------------------------------------------------
(* The scanned tree: listings in the order the file system returns them *)

Root == "r"

TreeDirs == {"r", "r/d", "r/d/s", "r/e"}

SubDirs(d) ==
    CASE d = "r"   -> <<"d", "e">>
      [] d = "r/d" -> <<"s">>
      [] OTHER     -> <<>>

StaticFiles(d) ==
    CASE d = "r"     -> <<"a.txt", "b.log">>
      [] d = "r/d"   -> <<"c.txt">>
      [] d = "r/d/s" -> <<"a.txt">>
      [] d = "r/e"   -> <<"b.txt">>
      [] OTHER       -> <<>>

TreeFiles == {"r/a.txt", "r/b.log", "r/d/c.txt", "r/d/s/a.txt", "r/e/b.txt"}

\* the bytes of each file; r/a.txt and r/d/s/a.txt are byte-identical
Content(p) ==
    CASE p = "r/a.txt"     -> "A"
      [] p = "r/b.log"     -> "B"
      [] p = "r/d/c.txt"   -> "C"
      [] p = "r/d/s/a.txt" -> "A"
      [] OTHER             -> "E"

MTime(p) == "T"

\* os.cpu_count() of the host
CpuCount == 2

------------------------------------------------------------------------------
(* calculate_hash *)

\* a selector that is compared without lower()
SelectHashCaseSensitive(algorithm) ==
    IF algorithm = "md5" THEN "md5"
    ELSE IF algorithm = "sha1" THEN "sha1"
    ELSE IF algorithm = "sha256" THEN "sha256"
    ELSE "md5"

\* the digest accumulator chosen from the selector
SelectHash(algorithm) ==
    LET algorithm_lower == Lower(algorithm)
    IN  IF algorithm_lower = "md5" THEN "md5"
        ELSE IF algorithm_lower = "sha1" THEN "sha1"
        ELSE IF algorithm_lower = "sha256" THEN "sha256"
        ELSE "md5"

\* the else branch: the fallback warning is logged
UnsupportedAlgorithm(algorithm) ==
    Lower(algorithm) \notin {"md5", "sha1", "sha256"}

\* hash_func.hexdigest() of the bytes read: distinct for distinct (function, bytes)
HexDigest(hash_func, bytes) == hash_func \o "(" \o bytes \o ")"

\* the steps inside the try block that can raise
HashSteps == {"open", "read", "getmtime"}

\* a try block that ends before os.path.getmtime
calculate_hash_mtime_unguarded(file_path, algorithm, bytes, failAt) ==
    IF failAt = None \/ failAt = Some("getmtime")
    THEN [path |-> file_path,
          hash |-> Some(HexDigest(SelectHash(algorithm), bytes)),
          mtime |-> IF failAt = None THEN Some(MTime(file_path)) ELSE None]
    ELSE [path |-> file_path, hash |-> None, mtime |-> None]

\* the returned tuple; failAt is None or Some(the step that raised)
calculate_hash(file_path, algorithm, bytes, failAt) ==
    IF failAt = None
    THEN [path |-> file_path,
          hash |-> Some(HexDigest(SelectHash(algorithm), bytes)),
          mtime |-> Some(MTime(file_path))]
    ELSE [path |-> file_path, hash |-> None, mtime |-> None]

\* what calculate_hash hands to logging
HashLog(file_path, algorithm, failAt) ==
    (IF UnsupportedAlgorithm(algorithm)
     THEN {<<"WARNING", "Unsupported algorithm", algorithm>>} ELSE {})
    \cup
    (IF failAt # None THEN {<<"ERROR", "Error calculating", file_path>>} ELSE {})

------------------------------------------------------------------------------
(* load_file_names *)

\* rows is the parsed CSV, or None when the file cannot be opened or parsed
load_file_names(rows) ==
    IF rows = None THEN {}
    ELSE {rows[1][i][1] : i \in {j \in 1..Len(rows[1]) : rows[1][j] # <<>>}}

------------------------------------------------------------------------------
(* The file system as main() and walk_directory_and_log() see it *)

NamesCsv == "names.csv"

\* os.path.exists / os.path.isdir before the run creates anything
Exists(p) == p \in TreeDirs \cup TreeFiles \cup {NamesCsv}

\* a validation that only tests existence
IsDirAsExists(p) == Exists(p)

IsDir(p) == p \in TreeDirs

Basename(p) == SubSeq(p, Len(Dirname(p)) + (IF Dirname(p) = "" THEN 1 ELSE 2), Len(p))

\* the files os.walk lists in directory top: the output file is one of them
\* once it has been created there
Listing(top) ==
    StaticFiles(top) \o
    (IF outExists /\ Dirname(args.output) = top THEN <<Basename(args.output)>> ELSE <<>>)

Header == <<"File Name", "Hash", "Last Modified Time">>

\* csv_writer's text for a sequence of rows
RECURSIVE CsvText(_)
CsvText(rows) ==
    IF rows = <<>> THEN ""
    ELSE rows[1][1] \o "," \o rows[1][2] \o "," \o rows[1][3] \o "\n" \o CsvText(Tail(rows))

------------------------------------------------------------------------------
(* main *)

ArgError(msg, what) == <<"ERROR", msg, what>>

\* lines 153-176: validation, exclude_paths and file_names
Main ==
    /\ pc = "main"
    /\ IF ~Exists(args.scan_path)
       THEN /\ log' = log \cup {ArgError("does not exist", args.scan_path)}
            /\ pc' = "exit"
            /\ UNCHANGED <<exclude_paths, file_names>>
       ELSE IF ~IsDir(args.scan_path)
       THEN /\ log' = log \cup {ArgError("is not a directory", args.scan_path)}
            /\ pc' = "exit"
            /\ UNCHANGED <<exclude_paths, file_names>>
       ELSE IF TruthyStr(args.filelist) /\ ~Exists(args.filelist[1])
       THEN /\ log' = log \cup {ArgError("file list does not exist", args.filelist[1])}
            /\ pc' = "exit"
            /\ UNCHANGED <<exclude_paths, file_names>>
       ELSE /\ exclude_paths' = IF args.exclude # {} THEN Some(args.exclude) ELSE None
            /\ file_names' = IF TruthyStr(args.filelist)
                             THEN Some(load_file_names(env.filelistRows))
                             ELSE None
            /\ log' = log
                 \cup (IF TruthyStr(args.filelist) /\ env.filelistRows = None
                       THEN {<<"ERROR", "Error reading file names", args.filelist[1]>>}
                       ELSE {})
                 \cup (IF TruthyStr(args.filelist) /\ load_file_names(env.filelistRows) = {}
                       THEN {<<"WARNING", "No file names loaded", args.filelist[1]>>}
                       ELSE {})
            /\ pc' = "makedirs"
    /\ UNCHANGED <<args, env, outExists, madeDirs, report, stack, files, walked,
                   visited, futures, collected, count, processed_files_count,
                   run, report1>>

\* lines 198-201, after walk_directory_and_log has returned
MainReturn ==
    /\ pc = "returned"
    /\ log' = log \cup {<<"INFO", "File report generated", "">>}
    /\ pc' = "done"
    /\ UNCHANGED <<args, env, exclude_paths, file_names, outExists, madeDirs, report,
                   stack, files, walked, visited, futures, collected, count,
                   processed_files_count, run, report1>>

------------------------------------------------------------------------------
(* walk_directory_and_log *)

limit == args.test
file_extension == args.extension

\* line 84
max_workers == IF TruthyInt(args.threads) THEN args.threads[1] ELSE CpuCount

\* os.makedirs without exist_ok=True: an existing directory raises
MakedirsNotExistOk ==
    /\ pc = "makedirs"
    /\ LET d == Dirname(args.output)
       IN  IF d = "" \/ IsDir(d) \/ d \in madeDirs \/ env.sinkFault = "makedirs"
           THEN /\ pc' = "crashed"
                /\ UNCHANGED madeDirs
           ELSE /\ pc' = "open"
                /\ madeDirs' = madeDirs \cup {d}
    /\ processed_files_count' = 0
    /\ UNCHANGED <<args, env, exclude_paths, file_names, outExists, report, stack,
                   files, walked, visited, futures, collected, count, log, run,
                   report1>>

\* lines 75-77: os.makedirs is outside the try block, so what it raises
\* leaves walk_directory_and_log and main
Makedirs ==
    /\ pc = "makedirs"
    /\ LET d == Dirname(args.output)
       IN  IF d = "" \/ (env.sinkFault = "makedirs" /\ ~IsDir(d) /\ d \notin madeDirs)
           THEN /\ pc' = "crashed"
                /\ UNCHANGED madeDirs
           ELSE /\ pc' = "open"
                /\ madeDirs' = IF IsDir(d) THEN madeDirs ELSE madeDirs \cup {d}
    /\ processed_files_count' = 0
    /\ UNCHANGED <<args, env, exclude_paths, file_names, outExists, report, stack,
                   files, walked, visited, futures, collected, count, log, run,
                   report1>>

\* lines 79-91: open(csv_file_path, "w"), the header row, the executor
OpenOutput ==
    /\ pc = "open"
    /\ IF env.sinkFault = "open"
       THEN /\ log' = log \cup {<<"ERROR", "Error during directory walk or file writing", "">>}
            /\ pc' = "check"
            /\ UNCHANGED <<outExists, report, stack, count>>
       ELSE /\ outExists' = TRUE
            /\ report' = <<Header>>
            /\ stack' = <<args.scan_path>>
            /\ count' = 0
            /\ pc' = "walk"
            /\ UNCHANGED log
    /\ files' = <<>>
    /\ walked' = <<>>
    /\ visited' = <<>>
    /\ futures' = <<>>
    /\ collected' = {}
    /\ UNCHANGED <<args, env, exclude_paths, file_names, madeDirs,
                   processed_files_count, run, report1>>

\* a cap that is tested with > instead of >=
LimitReachedLate(n) == TruthyInt(limit) /\ n > limit[1]

\* lines 107 and 110: limit and count >= limit
LimitReached(n) == TruthyInt(limit) /\ n >= limit[1]

\* a walk that descends into every subdirectory
PruneDirsNone(root, dirs) == dirs

\* line 95: dirs[:] = [d for d in dirs if os.path.join(root, d) not in exclude_paths]
PruneDirs(root, dirs) ==
    IF TruthySet(exclude_paths)
    THEN SelectSeq(dirs, LAMBDA d : Join(root, d) \notin exclude_paths[1])
    ELSE dirs

\* a name filter that is matched against the full path
SkippedByPath(file_path, file) ==
    \/ TruthySet(exclude_paths) /\ file_path \in exclude_paths[1]
    \/ TruthyStr(file_extension) /\ ~EndsWith(file, file_extension[1])
    \/ TruthySet(file_names) /\ file_path \notin file_names[1]

\* lines 99-104: the three filters, TRUE when the file is skipped
Skipped(file_path, file) ==
    \/ TruthySet(exclude_paths) /\ file_path \in exclude_paths[1]
    \/ TruthyStr(file_extension) /\ ~EndsWith(file, file_extension[1])
    \/ TruthySet(file_names) /\ file \notin file_names[1]

\* lines 92-95 and 110-111: the end of one directory's inner loop, then
\* os.walk's next directory or the end of the walk
WalkDir ==
    /\ pc = "walk"
    /\ files = <<>>
    /\ IF (walked # <<>> /\ LimitReached(count)) \/ stack = <<>>
       THEN /\ pc' = "collect"
            /\ UNCHANGED <<stack, files, walked>>
       ELSE LET top == Head(stack)
                dirs == PruneDirs(top, SubDirs(top))
            IN  /\ stack' = [i \in 1..Len(dirs) |-> Join(top, dirs[i])] \o Tail(stack)
                /\ files' = Listing(top)
                /\ walked' = Append(walked, top)
                /\ pc' = "walk"
    /\ UNCHANGED <<args, env, exclude_paths, file_names, outExists, madeDirs, report,
                   visited, futures, collected, count, processed_files_count, log,
                   run, report1>>

\* lines 97-108: one iteration of the inner loop
VisitFile ==
    /\ pc = "walk"
    /\ files # <<>>
    /\ LET root == walked[Len(walked)]
           file == Head(files)
           file_path == Join(root, file)
       IN  /\ visited' = Append(visited, file_path)
           /\ files' = Tail(files)
           /\ IF Skipped(file_path, file)
              THEN UNCHANGED <<futures, count, pc>>
              ELSE /\ futures' = Append(futures,
                          [path |-> file_path, st |-> "pending",
                           hash |-> None, mtime |-> None])
                   /\ count' = count + 1
                   /\ pc' = IF LimitReached(count + 1) THEN "collect" ELSE "walk"
    /\ UNCHANGED <<args, env, exclude_paths, file_names, outExists, madeDirs, report,
                   stack, walked, collected, processed_files_count, log, run, report1>>

------------------------------------------------------------------------------
(* The thread pool: workers take the submitted tasks in FIFO order *)

Running == {i \in 1..Len(futures) : futures[i].st = "running"}
Pending == {i \in 1..Len(futures) : futures[i].st = "pending"}
AllDone == \A i \in 1..Len(futures) : futures[i].st = "done"

\* a worker thread takes the oldest queued task (executor.submit, line 105)
WorkerStart ==
    /\ Pending # {}
    /\ Cardinality(Running) < max_workers
    /\ LET i == CHOOSE j \in Pending : \A k \in Pending : j <= k
       IN  futures' = [futures EXCEPT ![i].st = "running"]
    /\ UNCHANGED <<args, env, pc, exclude_paths, file_names, outExists, madeDirs,
                   report, stack, files, walked, visited, collected, count,
                   processed_files_count, log, run, report1>>

\* the bytes a worker reads from file_path: the output file holds whatever part
\* of the report the writer's buffer has flushed by then
BytesRead(file_path) ==
    IF file_path = args.output
    THEN {CsvText(SubSeq(report, 1, k)) : k \in 0..Len(report)}
    ELSE {Content(file_path)}

\* calculate_hash runs to its return in a worker (lines 16-46); what it logs on
\* the way (the fallback warning, the error) is recorded when it returns
WorkerFinish(i) ==
    /\ futures[i].st = "running"
    /\ \E bytes \in BytesRead(futures[i].path) :
       \E failAt \in (IF futures[i].path \in env.unreadable
                      THEN {Some(step) : step \in HashSteps} ELSE {None}) :
          LET r == calculate_hash(futures[i].path, args.algorithm, bytes, failAt)
          IN  /\ futures' = [futures EXCEPT ![i] =
                    [path |-> r.path, st |-> "done", hash |-> r.hash, mtime |-> r.mtime]]
              /\ log' = log \cup HashLog(futures[i].path, args.algorithm, failAt)
    /\ UNCHANGED <<args, env, pc, exclude_paths, file_names, outExists, madeDirs,
                   report, stack, files, walked, visited, collected, count,
                   processed_files_count, run, report1>>

------------------------------------------------------------------------------
(* Result collection *)

\* the outcomes of csv_writer.writerow for a data row
WriteOutcomes == IF env.sinkFault = "write" THEN {TRUE, FALSE} ELSE {TRUE}

\* csv_writer's rendering of a field: None is written as the empty string
CsvField(o) == IF o = None THEN "" ELSE o[1]

\* a collection loop that writes a row for every result
RowWantedAlways(hash_value) == TRUE

\* line 115: if hash_value
RowWanted(hash_value) == TruthyStr(hash_value)

\* lines 113-117: as_completed yields a finished future, its row is written
Collect(i) ==
    /\ pc = "collect"
    /\ i \notin collected
    /\ futures[i].st = "done"
    /\ collected' = collected \cup {i}
    /\ IF RowWanted(futures[i].hash)
       THEN \E ok \in WriteOutcomes :
              IF ok
              THEN /\ report' = Append(report,
                          <<futures[i].path, CsvField(futures[i].hash),
                            CsvField(futures[i].mtime)>>)
                   /\ processed_files_count' = processed_files_count + 1
                   /\ pc' = "collect"
              ELSE /\ pc' = "unwind"
                   /\ UNCHANGED <<report, processed_files_count>>
       ELSE UNCHANGED <<report, processed_files_count, pc>>
    /\ UNCHANGED <<args, env, exclude_paths, file_names, outExists, madeDirs, stack,
                   files, walked, visited, futures, count, log, run, report1>>

\* a collection loop that is left before every future has been yielded
FinishCollectEarly ==
    /\ pc = "collect"
    /\ pc' = "check"
    /\ UNCHANGED <<args, env, exclude_paths, file_names, outExists, madeDirs, report,
                   stack, files, walked, visited, futures, collected, count,
                   processed_files_count, log, run, report1>>

\* the as_completed loop ends; the executor and the file are closed (line 120)
FinishCollect ==
    /\ pc = "collect"
    /\ collected = 1..Len(futures)
    /\ pc' = "check"
    /\ UNCHANGED <<args, env, exclude_paths, file_names, outExists, madeDirs, report,
                   stack, files, walked, visited, futures, collected, count,
                   processed_files_count, log, run, report1>>

\* an exception leaves the with blocks: the executor's shutdown waits for every
\* submitted task, then lines 122-123 log the error
Unwind ==
    /\ pc = "unwind"
    /\ AllDone
    /\ log' = log \cup {<<"ERROR", "Error during directory walk or file writing", "">>}
    /\ pc' = "check"
    /\ UNCHANGED <<args, env, exclude_paths, file_names, outExists, madeDirs, report,
                   stack, files, walked, visited, futures, collected, count,
                   processed_files_count, run, report1>>

\* a warning that tests the submission counter
NoFilesSubmitted == count = 0

\* line 126
NoFilesProcessed == processed_files_count = 0

\* lines 125-127
FinalCheck ==
    /\ pc = "check"
    /\ log' = IF NoFilesProcessed
              THEN log \cup {<<"WARNING", "No files were processed", "">>}
              ELSE log
    /\ pc' = "returned"
    /\ UNCHANGED <<args, env, exclude_paths, file_names, outExists, madeDirs, report,
                   stack, files, walked, visited, futures, collected, count,
                   processed_files_count, run, report1>>

------------------------------------------------------------------------------
(* Inputs *)

Opt(S) == {None} \cup {Some(v) : v \in S}

ArgsOver(ScanPaths, Outputs, Extensions, Filelists, Threads, Limits, Algorithms, Excludes) ==
    [scan_path : ScanPaths, output : Outputs, extension : Extensions,
     filelist : Filelists, threads : Threads, test : Limits,
     algorithm : Algorithms, exclude : Excludes]

EnvOver(Rows, Unreadable, SinkFaults) ==
    [filelistRows : Rows, unreadable : Unreadable, sinkFault : SinkFaults]

InitOver(A, E) ==
    /\ args \in A
    /\ env \in E
    /\ pc = "main"
    /\ exclude_paths = None
    /\ file_names = None
    /\ outExists = FALSE
    /\ madeDirs = {}
    /\ report = <<>>
    /\ stack = <<>>
    /\ files = <<>>
    /\ walked = <<>>
    /\ visited = <<>>
    /\ futures = <<>>
    /\ collected = {}
    /\ count = 0
    /\ processed_files_count = 0
    /\ log = {}
    /\ run = 1
    /\ report1 = {}

Next ==
    \/ Main
    \/ Makedirs
    \/ OpenOutput
    \/ WalkDir
    \/ VisitFile
    \/ WorkerStart
    \/ \E i \in 1..Len(futures) : WorkerFinish(i)
    \/ \E i \in 1..Len(futures) : Collect(i)
    \/ FinishCollect
    \/ Unwind
    \/ FinalCheck
    \/ MainReturn

\* the (path, hash) pairs of the data rows of a report
Pairs(rows) == {<<rows[k][1], rows[k][2]>> : k \in 2..Len(rows)}

\* main() is run a second time, in a new process, with the same command line on
\* the same file system: what the first process held in memory is gone, what it
\* created on disk and what it logged remain
Rerun ==
    /\ pc = "done"
    /\ run = 1
    /\ run' = 2
    /\ report1' = Pairs(report)
    /\ pc' = "main"
    /\ exclude_paths' = None
    /\ file_names' = None
    /\ report' = <<>>
    /\ stack' = <<>>
    /\ files' = <<>>
    /\ walked' = <<>>
    /\ visited' = <<>>
    /\ futures' = <<>>
    /\ collected' = {}
    /\ count' = 0
    /\ processed_files_count' = 0
    /\ UNCHANGED <<args, env, outExists, madeDirs, log>>

NextTwice == Next \/ Rerun

------------------------------------------------------------------------------
(* Specifications: the same program over different families of inputs *)

\* the thread counts -t can give
ThreadChoices == {Some(n) : n \in 1..MaxThreads}

SomeRows == Some(<<<<"a.txt">>, <<>>, <<"b.txt", "x">>>>)

\* faults of the hasher and of the sink
Init ==
    InitOver(ArgsOver({"r"}, {"out/rep.csv", "rep.csv", "r/rep.csv"},
                      {None, Some(".txt"), Some(".md")}, {None}, ThreadChoices,
                      {None, Some(MaxLimit)}, {"md5"}, {{}, {"r/d"}}),
             EnvOver({SomeRows},
                     {{}, {"r/a.txt"}, {"r/a.txt", "r/e/b.txt"}, TreeFiles},
                     {"none", "makedirs", "open", "write"}))

Spec == Init /\ [][Next]_vars

\* a small family with a failing sink, shared below
InitSinkFault ==
    InitOver(ArgsOver({"r"}, {"out/rep.csv"}, {None}, {None}, {Some(1)}, {None},
                      {"md5"}, {{}}),
             EnvOver({SomeRows}, {{}}, {"write"}))

\* the filters: exclude_paths, extension and name-list, over two scan roots
InitFilter ==
    \/ InitOver(ArgsOver({"r", "r/d"}, {"out/rep.csv", "r/rep.csv"},
                         {None, Some(""), Some(".txt"), Some(".log")},
                         {None, Some(""), Some(NamesCsv)}, {Some(MaxThreads)},
                         {None}, {"md5"},
                         {{}, {"r/d"}, {"r/a.txt", "r/d/s"}, {"r"}, {"d", "a.txt"},
                          {"r/rep.csv", "r/e"}}),
                EnvOver({None, SomeRows}, {{}}, {"none"}))
    \/ InitSinkFault

SpecFilter == InitFilter /\ [][Next]_vars

\* the submission cap
InitLimit ==
    InitOver(ArgsOver({"r", "r/d"}, {"out/rep.csv", "r/rep.csv"},
                      {None, Some(".txt")}, {None, Some(NamesCsv)},
                      ThreadChoices, Opt(0..MaxLimit), {"md5"},
                      {{}, {"r/d"}, {"r/a.txt", "r/d/s"}}),
             EnvOver({SomeRows}, {{}, {"r/a.txt"}}, {"none", "write"}))

SpecLimit == InitLimit /\ [][Next]_vars

\* main()'s validation of the command line
InitMain ==
    InitOver(ArgsOver({"r", "r/d", "nope", "r/a.txt"},
                      {"out/rep.csv", "rep.csv", "r/rep.csv"},
                      {None, Some(".txt")},
                      {None, Some(""), Some(NamesCsv), Some("gone.csv")},
                      {None}, {None, Some(1)}, {"md5"}, {{}, {"r/d"}}),
             EnvOver({None, Some(<<>>), SomeRows}, {{}},
                     {"none", "makedirs", "open", "write"}))

SpecMain == InitMain /\ [][Next]_vars

\* the algorithm selector
InitAlgorithm ==
    \/ InitOver(ArgsOver({"r"}, {"out/rep.csv"}, {None, Some(".txt")},
                         {None}, ThreadChoices, {None, Some(MaxLimit)},
                         {"md5", "MD5", "sha1", "Sha1", "sha256", "SHA256", "crc32",
                          "", "md5 ", "sha"},
                         {{}}),
                EnvOver({SomeRows}, {{}, {"r/a.txt"}}, {"none"}))
    \/ InitSinkFault

SpecAlgorithm == InitAlgorithm /\ [][Next]_vars

\* the steps of the main thread and those of the pool's worker threads
MainThread ==
    \/ Main
    \/ Makedirs
    \/ OpenOutput
    \/ WalkDir
    \/ VisitFile
    \/ \E i \in 1..Len(futures) : Collect(i)
    \/ FinishCollect
    \/ Unwind
    \/ FinalCheck
    \/ MainReturn

HashFinishes == \E i \in 1..Len(futures) : WorkerFinish(i)

\* the pool: every size, the default included, with and without a cap, a failing
\* hash and a failing sink; the threads are scheduled fairly and every hash
\* operation that has started returns
InitPool ==
    InitOver(ArgsOver({"r"}, {"out/rep.csv", "r/rep.csv"}, {None, Some(".txt")},
                      {None}, Opt(1..MaxThreads), {None, Some(MaxLimit)}, {"md5"},
                      {{}, {"r/d"}}),
             EnvOver({SomeRows}, {{}, {"r/a.txt"}}, {"none", "write"}))

SpecPool ==
    /\ InitPool
    /\ [][Next]_vars
    /\ WF_vars(MainThread)
    /\ WF_vars(WorkerStart)
    /\ WF_vars(HashFinishes)

\* two consecutive runs with the same command line: the report outside the
\* scanned tree, and the report inside a small scanned directory
InitTwice ==
    \/ InitOver(ArgsOver({"r"}, {"out/rep.csv"}, {None, Some(".txt")},
                         {None, Some(NamesCsv)}, ThreadChoices,
                         {None, Some(MaxLimit)}, {"md5"}, {{}, {"r/d"}}),
                EnvOver({SomeRows}, {{}, {"r/a.txt"}}, {"none"}))
    \/ InitOver(ArgsOver({"r/e"}, {"out/rep.csv", "r/e/rep.csv"},
                         {None, Some(".txt")}, {None}, ThreadChoices, {None},
                         {"md5"}, {{}, {"r/e/rep.csv"}}),
                EnvOver({SomeRows}, {{}}, {"none", "write"}))

SpecTwice == InitTwice /\ [][NextTwice]_vars

------------------------------------------------------------------------------
(* Properties *)

SinkErrorLogged ==
    <<"ERROR", "Error during directory walk or file writing", "">> \in log

Returned == pc \in {"returned", "done"}

DataRows == 2..Len(report)

\* C1: every data row of the report was written for a collected result whose
\* digest is present, a result with an absent digest has no row, and
\* processed_files_count is the number of data rows written so far.
C1_RowsHaveDigest ==
    /\ \A k \in DataRows :
         \E i \in collected :
            /\ futures[i].st = "done"
            /\ futures[i].hash # None
            /\ report[k][1] = futures[i].path
            /\ report[k][2] = futures[i].hash[1]
    /\ \A i \in 1..Len(futures) :
         (futures[i].st = "done" /\ futures[i].hash = None)
            => \A k \in DataRows : report[k][1] # futures[i].path
    /\ processed_files_count = Cardinality(DataRows)

\* a failed result and a successful one have both been collected, one row written
C1_Witness ==
    /\ \E i \in collected : futures[i].hash = None
    /\ \E j \in collected : futures[j].hash # None
    /\ processed_files_count >= 1

\* the part of a path after its last slash
NameOf(p) ==
    LET k == CHOOSE k \in 0..Len(p) :
                /\ k = 0 \/ SubSeq(p, k, k) = "/"
                /\ \A j \in (k + 1)..Len(p) : SubSeq(p, j, j) # "/"
    IN  SubSeq(p, k + 1, Len(p))

HasSuffix(name, suffix) ==
    \E k \in 0..Len(name) : SubSeq(name, k + 1, Len(name)) = suffix

\* path p lies somewhere beneath directory d
Under(p, d) == Len(d) < Len(p) /\ SubSeq(p, 1, Len(d) + 1) = d \o "/"

SubmittedPaths == {futures[i].path : i \in 1..Len(futures)}
Times(p) == Cardinality({i \in 1..Len(futures) : futures[i].path = p})

\* the three conditions of C2 on a file's full path
PassesFilters(p) ==
    /\ exclude_paths = None \/ p \notin exclude_paths[1]
    /\ file_extension = None \/ HasSuffix(NameOf(p), file_extension[1])
    /\ file_names = None \/ file_names[1] = {} \/ NameOf(p) \in file_names[1]

\* C2: with no limit set, a visited file is submitted to the hasher, exactly
\* once, if and only if its full path is not in exclude_paths, the extension is
\* unset or the file name ends with it, and the name filter is absent, empty or
\* contains the bare file name; a file failing a filter is never hashed and
\* never in the report.
C2_SubmittedIffPasses ==
    limit = None =>
       /\ \A k \in 1..Len(visited) :
            Times(visited[k]) = IF PassesFilters(visited[k]) THEN 1 ELSE 0
       /\ \A k, l \in 1..Len(visited) : visited[k] = visited[l] => k = l
       /\ \A p \in SubmittedPaths : PassesFilters(p) /\ p \in SeqToSet(visited)
       /\ \A k \in DataRows : PassesFilters(report[k][1])

\* a finished run with all three filters active, in which one visited file is
\* rejected by each filter and a fourth is hashed and reported
C2_Witness ==
    /\ pc = "done"
    /\ limit = None
    /\ TruthySet(exclude_paths) /\ TruthyStr(file_extension) /\ TruthySet(file_names)
    /\ \E p, q, r, t \in SeqToSet(visited) :
         /\ p \in exclude_paths[1]
         /\ q \notin exclude_paths[1] /\ ~HasSuffix(NameOf(q), file_extension[1])
         /\ r \notin exclude_paths[1] /\ HasSuffix(NameOf(r), file_extension[1])
              /\ NameOf(r) \notin file_names[1]
         /\ {p, q, r} \cap SubmittedPaths = {}
         /\ \E k \in DataRows : report[k][1] = t

\* p is an exclude entry, or lies beneath a subdirectory of the scanned
\* directory that is an exclude entry
Excluded(p) ==
    /\ exclude_paths # None
    /\ \E e \in exclude_paths[1] :
          p = e \/ (Under(e, args.scan_path) /\ Under(p, e))

\* C3: no file whose path is an exclude entry, and no file beneath a
\* subdirectory whose path is an exclude entry, is submitted or reported,
\* whatever the other filters say; such a subdirectory is never descended into.
C3_ExcludedNeverHashed ==
    /\ \A p \in SubmittedPaths : ~Excluded(p)
    /\ \A k \in DataRows : ~Excluded(report[k][1])
    /\ \A k \in 1..Len(visited) : Excluded(visited[k]) => visited[k] \in exclude_paths[1]
    /\ \A k \in 1..Len(walked) : walked[k] # args.scan_path => ~Excluded(walked[k])

\* a finished run over r with r/d/s and r/a.txt excluded: r/d was walked, r/d/s
\* was not, and files that pass the other filters were reported
C3_Witness ==
    /\ pc = "done"
    /\ args.scan_path = "r"
    /\ exclude_paths = Some({"r/a.txt", "r/d/s"})
    /\ file_extension = Some(".txt")
    /\ "r/d" \in SeqToSet(walked)
    /\ "r/d/s" \notin SeqToSet(walked)
    /\ "r/a.txt" \in SeqToSet(visited)
    /\ \E k \in DataRows : report[k][1] = "r/d/c.txt"

Min(a, b) == IF a <= b THEN a ELSE b

\* the files of the scanned tree that the walk can reach and that pass the filters
PassingFiles ==
    {p \in TreeFiles \cup (IF outExists THEN {args.output} ELSE {}) :
        Under(p, args.scan_path) /\ PassesFilters(p) /\ ~Excluded(p)}

WalkEnded == outExists /\ pc \in {"collect", "unwind", "check", "returned", "done"}

\* C4: with limit N >= 1 the number of submitted files never exceeds N and is
\* min(N, number of files passing the filters) once the traversal has ended;
\* rejected files do not count; once the cap is reached the last file visited
\* is the N-th submitted one, in the last directory walked (nothing is visited
\* after it); and in a run that ends without a sink error every submitted file
\* has its result collected.
C4_LimitCap ==
    (limit # None /\ limit[1] >= 1) =>
       LET N == limit[1] IN
       /\ Len(futures) <= N
       /\ count = Len(futures)
       /\ count = Cardinality(SubmittedPaths)
       /\ WalkEnded => count = Min(N, Cardinality(PassingFiles))
       /\ count >= N =>
            /\ visited[Len(visited)] = futures[N].path
            /\ Under(futures[N].path, walked[Len(walked)])
            /\ NameOf(futures[N].path) = SubSeq(futures[N].path,
                   Len(walked[Len(walked)]) + 2, Len(futures[N].path))
       /\ (Returned /\ ~SinkErrorLogged) =>
            /\ collected = 1..Len(futures)
            /\ AllDone

\* a finished run with limit 2 over a tree with more than two passing files:
\* a rejected file was visited before the cap, two files were submitted and
\* collected, and a passing file was never visited
C4_Witness ==
    /\ pc = "done"
    /\ limit = Some(2)
    /\ Cardinality(PassingFiles) > 2
    /\ Len(futures) = 2
    /\ collected = {1, 2}
    /\ \E p \in SeqToSet(visited) : ~PassesFilters(p)
    /\ \E p \in PassingFiles : p \notin SeqToSet(visited)
    /\ Len(walked) < Cardinality(TreeDirs)

\* C5: each file whose hashing fails (at open, read or getmtime) yields a result
\* with digest and timestamp both absent and a logged error; nothing a worker
\* raises reaches the main thread, the run is aborted only by a sink fault, and
\* in a run that ends without a sink error every submitted file whose hashing
\* succeeds has its row in the report.
C5_HashFailuresIsolated ==
    /\ \A i \in 1..Len(futures) :
         futures[i].st = "done" =>
            IF futures[i].path \in env.unreadable
            THEN /\ futures[i].hash = None
                 /\ futures[i].mtime = None
                 /\ <<"ERROR", "Error calculating", futures[i].path>> \in log
            ELSE /\ futures[i].hash # None
                 /\ futures[i].mtime # None
    /\ pc = "crashed" => futures = <<>>
    /\ (pc = "unwind" \/ SinkErrorLogged) => env.sinkFault \in {"open", "write"}
    /\ (Returned /\ outExists /\ ~SinkErrorLogged) =>
         /\ collected = 1..Len(futures)
         /\ \A i \in 1..Len(futures) :
              futures[i].path \notin env.unreadable =>
                 \E k \in DataRows :
                    report[k] = <<futures[i].path, futures[i].hash[1], futures[i].mtime[1]>>

\* a finished run in which two files failed to hash and two others were reported
C5_Witness ==
    /\ pc = "done"
    /\ ~SinkErrorLogged
    /\ Cardinality({i \in collected : futures[i].hash = None}) = 2
    /\ Cardinality(DataRows) >= 2

\* C6: every sink failure (creating the output directory, opening the output
\* file, writing a row) ends the run with the error logged and without an
\* exception leaving walk_directory_and_log.
C6_SinkFailureLogged ==
    /\ pc # "crashed"
    /\ (Returned /\ env.sinkFault = "open") => SinkErrorLogged
    /\ pc = "unwind" => env.sinkFault = "write"
    /\ (Returned /\ collected # 1..Len(futures)) => SinkErrorLogged

\* C7: once the output file is opened the report starts with the header row
\* (File Name, Hash, Last Modified Time) and holds it exactly once; when no file
\* passes the filters the finished report is the header alone; and the "No
\* files were processed" warning is in the log exactly when
\* walk_directory_and_log has returned with a success counter of zero.
C7_HeaderAndWarning ==
    LET header == <<"File Name", "Hash", "Last Modified Time">> IN
    /\ outExists =>
         /\ report # <<>>
         /\ report[1] = header
         /\ \A k \in DataRows : report[k] # header
    /\ ~outExists => report = <<>>
    /\ (Returned /\ outExists /\ PassingFiles = {}) => report = <<header>>
    /\ <<"WARNING", "No files were processed", "">> \in log
         <=> (Returned /\ processed_files_count = 0)

\* a finished run that visited files, none of which passed the filters
C7_Witness ==
    /\ pc = "done"
    /\ outExists
    /\ visited # <<>>
    /\ futures = <<>>
    /\ report = <<Header>>
    /\ <<"WARNING", "No files were processed", "">> \in log

\* C8: when the scan path is missing or not a directory, or a given file list is
\* missing, main logs an error and returns without calling the pipeline: no
\* output file or directory is created, no task is submitted, nothing is hashed.
C8_ValidationBeforeWork ==
    (args.scan_path \in {"nope", "r/a.txt"} \/ args.filelist = Some("gone.csv")) =>
       /\ pc \in {"main", "exit"}
       /\ pc = "exit" => \E e \in log : e[1] = "ERROR"
       /\ ~outExists
       /\ madeDirs = {}
       /\ report = <<>>
       /\ futures = <<>>
       /\ walked = <<>>
       /\ visited = <<>>

\* main has returned because the file list given for a valid scan path is missing
C8_Witness ==
    /\ pc = "exit"
    /\ args.scan_path = "r"
    /\ args.filelist = Some("gone.csv")
    /\ <<"ERROR", "file list does not exist", "gone.csv">> \in log

\* C9 as claimed: for any output path, also one inside the scanned tree, two
\* consecutive runs with the same arguments over an unchanged tree (neither run
\* hitting a sink error) report the same set of (path, hash) pairs.
C9_SameReportAnyOutput ==
    (run = 2 /\ pc = "done" /\ ~SinkErrorLogged) => Pairs(report) = report1

\* C9 amended: the same, for an output file that is not itself among the files
\* that pass the filters (one outside the scanned tree, or one that is excluded
\* or filtered out); the second run ends as the first did.
C9_SameReportOutputNotHashed ==
    (run = 2 /\ args.output \notin PassingFiles) =>
       /\ pc # "crashed"
       /\ (pc = "done" /\ ~SinkErrorLogged) => Pairs(report) = report1

\* a finished second run with the report outside the tree, an unreadable file
\* and two rows in each report
C9_Witness ==
    /\ run = 2
    /\ pc = "done"
    /\ ~SinkErrorLogged
    /\ args.output \notin PassingFiles
    /\ env.unreadable # {}
    /\ Cardinality(report1) >= 2
    /\ Pairs(report) = report1

\* the digest function C10 names for each selector
NamedHash(algorithm) ==
    IF algorithm \in {"sha1", "Sha1"} THEN "sha1"
    ELSE IF algorithm \in {"sha256", "SHA256"} THEN "sha256"
    ELSE "md5"

\* C10: the digest of a readable file is SHA1 of its bytes when the lowercased
\* selector is sha1, SHA256 when it is sha256 and MD5 otherwise; a selector whose
\* lowercased form is none of md5, sha1, sha256 logs the fallback warning and
\* still yields the MD5 digest; the selector never makes a hash or the run fail.
C10_AlgorithmSelection ==
    LET unsupported == args.algorithm \in {"crc32", "", "md5 ", "sha"}
        warned == <<"WARNING", "Unsupported algorithm", args.algorithm>> \in log
    IN  /\ \A i \in 1..Len(futures) :
             (futures[i].st = "done" /\ futures[i].path \notin env.unreadable) =>
                /\ futures[i].hash =
                      Some(NamedHash(args.algorithm) \o "(" \o Content(futures[i].path) \o ")")
                /\ futures[i].mtime # None
        /\ warned => unsupported
        /\ (\E i \in 1..Len(futures) : futures[i].st = "done") => (warned <=> unsupported)
        /\ pc # "crashed"
        /\ SinkErrorLogged => env.sinkFault = "write"
        /\ (Returned /\ ~SinkErrorLogged) =>
              \A i \in 1..Len(futures) :
                 futures[i].path \notin env.unreadable =>
                    \E k \in DataRows : report[k][1] = futures[i].path

\* a finished run with selector crc32: the warning was logged and r/a.txt is
\* reported with the MD5 digest of its bytes
C10_Witness ==
    /\ pc = "done"
    /\ args.algorithm = "crc32"
    /\ <<"WARNING", "Unsupported algorithm", "crc32">> \in log
    /\ \E k \in DataRows : report[k][1] = "r/a.txt" /\ report[k][2] = "md5(A)"

\* the directories and files of the scanned tree that no pruned directory hides
InPrunedDir(p) ==
    /\ exclude_paths # None
    /\ \E e \in exclude_paths[1] : Under(e, args.scan_path) /\ (p = e \/ Under(p, e))

ReachableDirs ==
    {d \in TreeDirs : (d = args.scan_path \/ Under(d, args.scan_path)) /\ ~InPrunedDir(d)}

ReachableFiles ==
    {p \in TreeFiles \cup (IF outExists THEN {args.output} ELSE {}) :
        Under(p, args.scan_path) /\ \A d \in TreeDirs : Under(p, d) => ~InPrunedDir(d)}

\* C12: a limit of 0 behaves as an absent limit does: the walk ends only when
\* os.walk is exhausted (the cap test never ends it), every directory that is
\* not pruned is walked and every file in one is visited, and every file that
\* passes the filters is submitted.
C12_ZeroLimitIsNoLimit ==
    (limit \in {None, Some(0)} /\ WalkEnded) =>
       /\ stack = <<>>
       /\ files = <<>>
       /\ SeqToSet(walked) = ReachableDirs
       /\ SeqToSet(visited) = ReachableFiles
       /\ SubmittedPaths = PassingFiles
       /\ count = Cardinality(PassingFiles)

\* a finished run over r with --test 0 and no filter: all four directories were
\* walked and all five files submitted, more than any limit the model draws
C12_Witness ==
    /\ pc = "done"
    /\ limit = Some(0)
    /\ args.scan_path = "r"
    /\ Len(walked) = Cardinality(TreeDirs)
    /\ count >= Cardinality(TreeFiles)
    /\ count > MaxLimit
    /\ collected = 1..Len(futures)

Closed == outExists /\ pc \in {"check", "returned", "done"}

\* the row csv_writer writes for future i
RowOf(i) == <<futures[i].path, CsvField(futures[i].hash), CsvField(futures[i].mtime)>>

C11_State ==
    /\ \A k, l \in DataRows : report[k][1] = report[l][1] => k = l
    /\ collected \subseteq 1..Len(futures)
    /\ \A i \in collected : futures[i].st = "done"
    /\ Cardinality(Running) <= (IF args.threads = None THEN CpuCount ELSE args.threads[1])
    /\ Closed => AllDone
    /\ (Closed /\ ~SinkErrorLogged) =>
         /\ collected = 1..Len(futures)
         /\ \A i \in 1..Len(futures) :
              Cardinality({k \in DataRows : report[k] = RowOf(i)})
                 = IF futures[i].hash = None THEN 0 ELSE 1

C11_Step ==
    /\ collected \subseteq collected'
    /\ Cardinality(collected') <= Cardinality(collected) + 1
    /\ Len(futures') >= Len(futures)
    /\ \A i \in 1..Len(futures) :
         /\ futures'[i].path = futures[i].path
         /\ futures[i].st = "running" => futures'[i].st \in {"running", "done"}
         /\ futures[i].st = "done" => futures'[i] = futures[i]
    /\ (\E i \in 1..Len(futures) : futures'[i] # futures[i]) =>
         UNCHANGED <<report, collected, processed_files_count, pc>>
    /\ report' # report =>
         \/ pc = "open" /\ report' = <<Header>>
         \/ /\ pc = "collect"
            /\ \E i \in collected' \ collected : report' = Append(report, RowOf(i))

Terminated == pc \in {"done", "exit", "crashed"}

\* C11: for every pool size and interleaving, in a run with no sink error each
\* submitted result is collected exactly once (one row per successful result,
\* each written in a step of the main thread that yields a future not yielded
\* before, never in a worker's step); a submitted task keeps its place and only
\* moves forward to completion, cap or no cap; the report is closed only when
\* every task is done and collected; and with fair scheduling and returning
\* hash operations the run terminates.
C11_PoolCollectsAll ==
    /\ []C11_State
    /\ [][C11_Step]_vars
    /\ <>Terminated

\* a finished run, cap reached, full pool, in which the rows are not in
\* submission order: a later task's result was collected before an earlier one
C11_Witness ==
    /\ pc = "done"
    /\ ~SinkErrorLogged
    /\ args.threads = Some(MaxThreads)
    /\ TruthyInt(limit) /\ count = limit[1]
    /\ collected = 1..Len(futures)
    /\ \E i, j \in 1..Len(futures) : \E k, l \in DataRows :
          i < j /\ l < k /\ report[k] = RowOf(i) /\ report[l] = RowOf(j)

==============================================================================
